---- MODULE Spec2Model ----
(***************************************************************************)
(* Nickname Guardian: the rename-policy engine of bot.py and of main.py.   *)
(*                                                                         *)
(* A guild holds members with live display names and live role sets.  The  *)
(* store (Firestore) holds one nickname document per member and the        *)
(* immune-role collection.  Every rename of a member is delivered as a     *)
(* member-update event; each event is handled by its own task running      *)
(* handle_nickname_change, and tasks interleave at the points where the    *)
(* code awaits the network (audit-log query, member edit, channel send and,*)
(* in main.py, every store call of the asynchronous client).  bot.py uses  *)
(* the synchronous store client, so its store calls do not yield.          *)
(***************************************************************************)
EXTENDS Integers, Sequences, FiniteSets, TLC

VARIABLES
    impl,       \* which program runs: "bot" (bot.py) or "main" (main.py)
    db,         \* bot.py: TRUE iff the global store handle db is not None
    records,    \* servers/<guild>/users/<member>: the nickname document
    immune,     \* servers/<guild>/immune_roles: the stored role ids
    roles,      \* live role set of every user
    bot_member, \* TRUE iff the guild's member cache holds the bot itself
    live,       \* live display name of every member
    audit,      \* member_update audit-log entries, newest first
    channel,    \* TRUE iff the guild has the text channel the reverts are reported to
    handlers,   \* one entry per dispatched handle_nickname_change task
    left        \* what the run may still do: renames by users (ren) and
                \* disturbances (dist): a failing collaborator call, an audit
                \* entry that is not yet visible, a role or immune-set change

vars == <<impl, db, records, immune, roles, bot_member, live, audit, channel,
          handlers, left>>

-----------------------------------------------------------------------------
(* Bounds and the finite universe *)

MaxRenames == 2
MaxDisturb == 1

Members == {"m1", "m2"}
Renamed == {"m1"}
Owner == "owner"
Me == "bot"
Users == Members \cup {Owner, Me}
Names == {"Alice", "Bob", "Carol"}
Roles == {"r1", "r2"}
RoleHolders == {"m2"}

None == "None"

\* role.position: the rank order of the guild's roles; 0 is @everyone
Position(r) == IF r = "r1" THEN 1 ELSE 2

-----------------------------------------------------------------------------
(* The store *)

NoDoc == [exists |-> FALSE, nickname |-> None, updated_by |-> None,
          is_self_change |-> FALSE]

Doc(nick, by, self) ==
    [exists |-> TRUE, nickname |-> nick, updated_by |-> by, is_self_change |-> self]

\* variant: the store is taken to be ready whether or not the handle is set
always_ready == TRUE

is_firebase_ready == db

\* variant: the name a write replaces is kept in updated_by
initialize_user_shift(recs, user, display_name, ok) ==
    IF ~is_firebase_ready THEN recs
    ELSE IF ~ok THEN recs
    ELSE [recs EXCEPT ![user] = Doc(display_name, recs[user].nickname, TRUE)]

\* set(user_data) without merge: the document is replaced, so it carries no
\* updated_by field afterwards
initialize_user(recs, user, display_name, ok) ==
    IF ~is_firebase_ready THEN recs
    ELSE IF ~ok THEN recs
    ELSE [recs EXCEPT ![user] = Doc(display_name, None, TRUE)]

update_nickname_record(recs, user, new_nickname, updated_by, is_self_change, ok) ==
    IF ~is_firebase_ready THEN recs
    ELSE IF ~ok THEN recs
    ELSE [recs EXCEPT ![user] = Doc(new_nickname, updated_by, is_self_change)]

\* variant: a user is immune who holds every stored immune role
is_user_immune_every(user, ok) ==
    IF ~is_firebase_ready THEN FALSE
    ELSE IF ~ok THEN FALSE
    ELSE IF immune = {} THEN FALSE
    ELSE \A r \in immune : r \in roles[user]

\* variant: a user once found authorized stays authorized
is_user_immune_cached(user, ok) ==
    \/ \E j \in DOMAIN handlers :
           handlers[j].actor = user /\ handlers[j].outcome = "authorized"
    \/ is_firebase_ready /\ ok /\ \E r \in immune : r \in roles[user]

is_user_immune(user, ok) ==
    IF ~is_firebase_ready THEN FALSE
    ELSE IF ~ok THEN FALSE
    ELSE IF immune = {} THEN FALSE
    ELSE \E r \in immune : r \in roles[user]

can_user_change_others_nicknames(user, ok) ==
    IF user = Owner THEN TRUE
    ELSE IF is_user_immune(user, ok) THEN TRUE
    ELSE FALSE

\* variant: the stored name is returned without asking whether the store
\* handle is there
previous_unguarded(user, display_name, ok) ==
    IF ~ok THEN None
    ELSE IF records[user].exists THEN records[user].nickname
    ELSE display_name

\* variant: the live display name is returned in place of the stored one
previous_from_display_name(user, display_name, ok) ==
    IF ~is_firebase_ready THEN None
    ELSE IF ~ok THEN None
    ELSE display_name

\* the value get_previous_nickname returns
get_previous_nickname(user, display_name, ok) ==
    IF ~is_firebase_ready THEN None
    ELSE IF ~ok THEN None
    ELSE IF records[user].exists THEN records[user].nickname
    ELSE display_name

\* variant: a missing document is never initialized
never_init(user, ok) == FALSE

\* variant: the member is initialized on every served read
always_init(user, ok) == is_firebase_ready /\ ok

\* whether get_previous_nickname takes the branch that initializes the member
needs_init(user, ok) ==
    is_firebase_ready /\ ok /\ ~records[user].exists

\* the store after get_previous_nickname: a missing document is initialized
get_previous_nickname_store(user, display_name, ok, initOk) ==
    IF needs_init(user, ok)
    THEN initialize_user(records, user, display_name, initOk)
    ELSE records

-----------------------------------------------------------------------------
(* Attribution *)

AuditLimitBot == 5
AuditLimitMain == 1

Min(a, b) == IF a < b THEN a ELSE b

Window(limit) == SubSeq(audit, 1, Min(limit, Len(audit)))

\* variant: the oldest entry about the member in the window is taken
attribute_oldest(window, k, member) ==
    LET hits == {j \in k..Len(window) : window[j].target = member} IN
    IF hits = {} THEN member
    ELSE window[CHOOSE j \in hits : \A x \in hits : x <= j].user

RECURSIVE attribute(_, _, _)
\* for entry in window: if entry.target.id == after.id: actor = entry.user; break
\* else: actor = after
attribute(window, k, member) ==
    IF k > Len(window) THEN member
    ELSE IF window[k].target = member THEN window[k].user
    ELSE attribute(window, k + 1, member)

-----------------------------------------------------------------------------
(* Budgets of a run *)

Cost(ok) == IF ok THEN 0 ELSE 1

Spend(n) ==
    /\ left.dist >= n
    /\ left' = [left EXCEPT !.dist = @ - n]

-----------------------------------------------------------------------------
(* Handler tasks *)

\* the task of one event: the event (m, before, after), who made the change
\* (by) and the name stored for m at that time (rec0); the position of the
\* task (pc), its locals (actor, via, prev), and what it did: the errors it
\* logged, the record writes, edit commands and notifications it made
NewHandler(m, before, after, by) ==
    [m |-> m, before |-> before, after |-> after, by |-> by,
     rec0 |-> records[m].nickname, pc |-> "start",
     actor |-> None, via |-> None, prev |-> None, outcome |-> None,
     log |-> {}, wrote |-> 0, edits |-> 0, notes |-> 0]

\* on_member_update: only a change of the display name reaches the guardian
on_member_update(hs, m, before, after, by) ==
    IF before # after THEN Append(hs, NewHandler(m, before, after, by)) ELSE hs

Finish(h, outcome) == [h EXCEPT !.pc = "done", !.outcome = outcome]

Tag(cond, tag) == IF cond THEN {tag} ELSE {}

AuditResults == {"ok", "forbidden", "error"}

\* variant: a forbidden audit query is raised like any other failure
resolve_actor_strict(res, limit, member) ==
    IF res = "ok" THEN attribute(Window(limit), 1, member)
    ELSE "raise"

\* the actor the audit response yields: the user of the first entry about the
\* member, the member itself when there is none or the query is forbidden;
\* any other failure of the query is raised to the caller
resolve_actor(res, limit, member) ==
    IF res = "ok" THEN attribute(Window(limit), 1, member)
    ELSE IF res = "forbidden" THEN member
    ELSE "raise"

\* which branch of the attribution produced the actor
resolve_via(res, limit, member) ==
    IF res # "ok" THEN res
    ELSE IF \E k \in 1..Len(Window(limit)) : Window(limit)[k].target = member
    THEN "entry"
    ELSE "absent"

\* variant: no change is taken for a self-change
never_self_change(actor, member) == FALSE

IsSelfChange(actor, member) == actor = member

\* variant: the bot's own edits are not told apart from a user's
never_bot_action(actor) == FALSE

is_bot_action(actor) == actor = Me

\* variant: the names of the event are not compared before the query
handle_start_unchecked(i, res) ==
    LET h == handlers[i] IN
    /\ impl = "bot"
    /\ h.pc = "start"
    /\ handlers' = [handlers EXCEPT ![i] =
           [h EXCEPT !.pc = "audit",
                     !.actor = resolve_actor(res, AuditLimitBot, h.m),
                     !.via = resolve_via(res, AuditLimitBot, h.m)]]
    /\ Spend(Cost(res = "ok"))
    /\ UNCHANGED <<impl, bot_member, db, records, immune, roles, live, audit, channel>>

\* bot.py lines 258-272: the defensive name check, then the audit-log query
handle_start(i, res) ==
    LET h == handlers[i] IN
    /\ impl = "bot"
    /\ h.pc = "start"
    /\ IF h.before = h.after
       THEN /\ res = "ok"
            /\ handlers' = [handlers EXCEPT ![i] = Finish(h, "noop")]
       ELSE handlers' = [handlers EXCEPT ![i] =
                [h EXCEPT !.pc = "audit",
                          !.actor = resolve_actor(res, AuditLimitBot, h.m),
                          !.via = resolve_via(res, AuditLimitBot, h.m)]]
    /\ Spend(Cost(res = "ok"))
    /\ UNCHANGED <<impl, bot_member, db, records, immune, roles, live, audit, channel>>

\* bot.py lines 274-291: everything between the audit response and the edit
\* command; the store calls of the synchronous client do not yield
handle_decide(i, immOk, prevOk, wrOk) ==
    LET h == handlers[i]
        self == IsSelfChange(h.actor, h.m)
        previous_nickname == get_previous_nickname(h.m, h.after, prevOk)
        other == h.actor # "raise" /\ ~self /\ ~is_bot_action(h.actor)
        asksImmune == other /\ h.actor # Owner /\ is_firebase_ready
        asksPrevious == other /\ is_firebase_ready
                        /\ ~can_user_change_others_nicknames(h.actor, immOk)
        writes == \/ h.actor # "raise" /\ self /\ is_firebase_ready
                  \/ asksPrevious /\ needs_init(h.m, prevOk)
    IN
    /\ impl = "bot"
    /\ h.pc = "audit"
    /\ ~immOk => asksImmune
    /\ ~prevOk => asksPrevious
    /\ ~wrOk => writes
    /\ Spend(Cost(immOk) + Cost(prevOk) + Cost(wrOk))
    /\ IF h.actor = "raise"
       THEN /\ handlers' = [handlers EXCEPT ![i] = Finish(h, "raised")]
            /\ UNCHANGED records
       ELSE IF self
       THEN /\ records' = update_nickname_record(records, h.m, h.after, h.actor,
                                                 self, wrOk)
            /\ handlers' = [handlers EXCEPT ![i] =
                  [Finish(h, "self") EXCEPT
                      !.wrote = IF writes /\ wrOk THEN 1 ELSE 0,
                      !.log = Tag(~wrOk, "update")]]
       ELSE IF is_bot_action(h.actor)
       THEN /\ handlers' = [handlers EXCEPT ![i] = Finish(h, "bot")]
            /\ UNCHANGED records
       ELSE IF can_user_change_others_nicknames(h.actor, immOk)
       THEN /\ handlers' = [handlers EXCEPT ![i] =
                  [Finish(h, "authorized") EXCEPT !.log = Tag(~immOk, "immune")]]
            /\ UNCHANGED records
       ELSE /\ records' = get_previous_nickname_store(h.m, h.after, prevOk, wrOk)
            /\ handlers' = [handlers EXCEPT ![i] =
                  [(IF previous_nickname # None /\ previous_nickname # h.after
                    THEN [h EXCEPT !.pc = "edit", !.edits = 1]
                    ELSE Finish(h, "kept")) EXCEPT
                      !.prev = previous_nickname,
                      !.wrote = IF writes /\ wrOk THEN 1 ELSE 0,
                      !.log = Tag(~immOk, "immune") \cup Tag(~prevOk, "previous")
                              \cup Tag(~wrOk, "initialize")]]
    /\ UNCHANGED <<impl, bot_member, db, immune, roles, live, audit, channel>>

\* variant: the notification is sent whether or not the edit succeeded
revert_edit_notifying(i, res, logged, sent) ==
    LET h == handlers[i] IN
    /\ h.pc = "edit"
    /\ ~logged => res = "ok" /\ live[h.m] # h.prev
    /\ ~sent => res = "ok" /\ channel
    /\ Spend(Cost(res = "ok") + Cost(logged) + Cost(sent))
    /\ IF res = "ok"
       THEN /\ live' = [live EXCEPT ![h.m] = h.prev]
            /\ audit' = IF logged /\ live[h.m] # h.prev
                        THEN <<[user |-> Me, target |-> h.m]>> \o audit
                        ELSE audit
            /\ handlers' = on_member_update(
                   [handlers EXCEPT ![i] =
                       [Finish(h, "reverted") EXCEPT
                           !.notes = IF channel /\ sent THEN 1 ELSE 0,
                           !.log = @ \cup Tag(~sent, "error")]],
                   h.m, live[h.m], h.prev, Me)
       ELSE /\ handlers' = [handlers EXCEPT ![i] =
                   [Finish(h, "revert_failed") EXCEPT !.log = @ \cup {res},
                                                      !.notes = 1]]
            /\ UNCHANGED <<live, audit>>
    /\ UNCHANGED <<impl, bot_member, db, records, immune, roles, channel>>

\* the edit command reaches the guild and succeeds or fails; on success the
\* log channel is looked up and, when it exists, the embed is sent, which
\* succeeds or raises into the handler's except clause
revert_edit(i, res, logged, sent) ==
    LET h == handlers[i] IN
    /\ h.pc = "edit"
    /\ ~logged => res = "ok" /\ live[h.m] # h.prev
    /\ ~sent => res = "ok" /\ channel
    /\ Spend(Cost(res = "ok") + Cost(logged) + Cost(sent))
    /\ IF res = "ok"
       THEN /\ live' = [live EXCEPT ![h.m] = h.prev]
            /\ audit' = IF logged /\ live[h.m] # h.prev
                        THEN <<[user |-> Me, target |-> h.m]>> \o audit
                        ELSE audit
            /\ handlers' = on_member_update(
                   [handlers EXCEPT ![i] =
                       [Finish(h, "reverted") EXCEPT
                           !.notes = IF channel /\ sent THEN 1 ELSE 0,
                           !.log = @ \cup Tag(~sent, "error")]],
                   h.m, live[h.m], h.prev, Me)
       ELSE /\ handlers' = [handlers EXCEPT ![i] =
                   [Finish(h, "revert_failed") EXCEPT !.log = @ \cup {res}]]
            /\ UNCHANGED <<live, audit>>
    /\ UNCHANGED <<impl, bot_member, db, records, immune, roles, channel>>

\* bot.py lines 288-312
handle_edit(i, res, logged, sent) ==
    impl = "bot" /\ revert_edit(i, res, logged, sent)

-----------------------------------------------------------------------------
(* main.py: the asynchronous store client; every store call yields *)

\* set(user_data, merge=True): the fields written replace the stored ones, the
\* updated_by field of an existing document is kept
main_initialize_user(recs, user, display_name, ok) ==
    IF ~ok THEN recs
    ELSE [recs EXCEPT ![user] = Doc(display_name, recs[user].updated_by, TRUE)]

main_update_nickname_record(recs, user, new_nickname, updated_by, is_self_change, ok) ==
    IF ~ok THEN recs
    ELSE [recs EXCEPT ![user] = Doc(new_nickname, updated_by, is_self_change)]

main_is_user_immune(user, ok) ==
    IF ~ok THEN FALSE
    ELSE IF immune = {} THEN FALSE
    ELSE \E r \in immune : r \in roles[user]

MainIsSelfChange(actor, member) == actor = member

main_get_previous_nickname(user, ok) ==
    IF ~ok THEN None
    ELSE IF records[user].exists THEN records[user].nickname
    ELSE None

\* main.py lines 159-163: the name check, then the document of the member is
\* written with the new display name
main_start(i, ok) ==
    LET h == handlers[i] IN
    /\ impl = "main"
    /\ h.pc = "start"
    /\ Spend(Cost(ok))
    /\ IF h.before = h.after
       THEN /\ ok
            /\ handlers' = [handlers EXCEPT ![i] = Finish(h, "noop")]
            /\ UNCHANGED records
       ELSE /\ records' = main_initialize_user(records, h.m, h.after, ok)
            /\ handlers' = [handlers EXCEPT ![i] =
                  [h EXCEPT !.pc = "query",
                            !.wrote = IF ok THEN 1 ELSE 0,
                            !.log = Tag(~ok, "initialize")]]
    /\ UNCHANGED <<impl, bot_member, db, immune, roles, live, audit, channel>>

\* main.py lines 165-173: the audit-log query
main_query(i, res) ==
    LET h == handlers[i] IN
    /\ impl = "main"
    /\ h.pc = "query"
    /\ Spend(Cost(res = "ok"))
    /\ handlers' = [handlers EXCEPT ![i] =
           [h EXCEPT !.pc = "audit",
                     !.actor = resolve_actor(res, AuditLimitMain, h.m),
                     !.via = resolve_via(res, AuditLimitMain, h.m)]]
    /\ UNCHANGED <<impl, bot_member, db, records, immune, roles, live, audit, channel>>

\* main.py lines 175-180: the record is written for every attributed change,
\* then the owner check of can_user_change_others_nicknames
main_update(i, ok) ==
    LET h == handlers[i]
        self == MainIsSelfChange(h.actor, h.m)
    IN
    /\ impl = "main"
    /\ h.pc = "audit"
    /\ Spend(Cost(ok))
    /\ IF h.actor = "raise"
       THEN /\ ok
            /\ handlers' = [handlers EXCEPT ![i] = Finish(h, "raised")]
            /\ UNCHANGED records
       ELSE /\ records' = main_update_nickname_record(records, h.m, h.after, h.actor,
                                                      self, ok)
            /\ handlers' = [handlers EXCEPT ![i] =
                  [(IF self THEN Finish(h, "self")
                    ELSE IF h.actor = Me THEN Finish(h, "bot")
                    ELSE IF h.actor = Owner THEN Finish(h, "authorized")
                    ELSE [h EXCEPT !.pc = "immune"]) EXCEPT
                      !.wrote = @ + (IF ok THEN 1 ELSE 0),
                      !.log = @ \cup Tag(~ok, "update")]]
    /\ UNCHANGED <<impl, bot_member, db, immune, roles, live, audit, channel>>

\* main.py lines 78-91, 179-180: the immune-role collection is read
main_immune(i, ok) ==
    LET h == handlers[i] IN
    /\ impl = "main"
    /\ h.pc = "immune"
    /\ Spend(Cost(ok))
    /\ handlers' = [handlers EXCEPT ![i] =
           [(IF main_is_user_immune(h.actor, ok) THEN Finish(h, "authorized")
             ELSE [h EXCEPT !.pc = "previous"]) EXCEPT
               !.log = @ \cup Tag(~ok, "immune")]]
    /\ UNCHANGED <<impl, bot_member, db, records, immune, roles, live, audit, channel>>

\* main.py lines 182-185: the stored name is read and compared
main_previous(i, ok) ==
    LET h == handlers[i]
        previous_nickname == main_get_previous_nickname(h.m, ok)
    IN
    /\ impl = "main"
    /\ h.pc = "previous"
    /\ Spend(Cost(ok))
    /\ handlers' = [handlers EXCEPT ![i] =
           [(IF previous_nickname # None /\ previous_nickname # h.after
             THEN [h EXCEPT !.pc = "edit", !.edits = 1]
             ELSE Finish(h, "kept")) EXCEPT
               !.prev = previous_nickname,
               !.log = @ \cup Tag(~ok, "previous")]]
    /\ UNCHANGED <<impl, bot_member, db, records, immune, roles, live, audit, channel>>

\* main.py lines 183-202
main_edit(i, res, logged, sent) ==
    impl = "main" /\ revert_edit(i, res, logged, sent)

-----------------------------------------------------------------------------
(* The guild: users rename members, roles are granted and revoked *)

\* user a sets the display name of member m to n; the audit entry of the change
\* is visible to later queries when logged, and not yet visible otherwise
Rename(a, m, n, logged) ==
    /\ left.ren > 0
    /\ live[m] # n
    /\ left.dist >= Cost(logged)
    /\ left' = [left EXCEPT !.ren = @ - 1, !.dist = @ - Cost(logged)]
    /\ live' = [live EXCEPT ![m] = n]
    /\ audit' = IF logged THEN <<[user |-> a, target |-> m]>> \o audit ELSE audit
    /\ handlers' = on_member_update(handlers, m, live[m], n, a)
    /\ UNCHANGED <<impl, bot_member, db, records, immune, roles, channel>>

\* a role change is a member update with an unchanged display name
SetRoles(u, rs) ==
    /\ roles[u] # rs
    /\ Spend(1)
    /\ roles' = [roles EXCEPT ![u] = rs]
    /\ handlers' = on_member_update(handlers, u, live[u], live[u], u)
    /\ UNCHANGED <<impl, bot_member, db, records, immune, live, audit, channel>>

-----------------------------------------------------------------------------
(* Immune-role administration *)

top_role(u) ==
    IF roles[u] = {} THEN 0
    ELSE CHOOSE p \in {Position(r) : r \in roles[u]} :
             \A r \in roles[u] : Position(r) <= p

\* variant: a top role equal to the bot's is enough
can_manage_immunity_equal(author) ==
    IF author = Owner THEN TRUE
    ELSE IF ~bot_member THEN FALSE
    ELSE top_role(author) >= top_role(Me)

\* get_bot_highest_role is None when the bot is not found among the members
can_manage_immunity(author) ==
    IF author = Owner THEN TRUE
    ELSE IF ~bot_member THEN FALSE
    ELSE top_role(author) > top_role(Me)

add_immune_role(role, ok) ==
    IF ~is_firebase_ready THEN immune
    ELSE IF ~ok THEN immune
    ELSE immune \cup {role}

\* variant: nothing is deleted
remove_nothing(role, ok) == immune

remove_immune_role(role, ok) ==
    IF ~is_firebase_ready THEN immune
    ELSE IF ~ok THEN immune
    ELSE immune \ {role}

\* the roles get_immune_roles returns: the stored ones the guild still has
get_immune_roles(ok) ==
    IF ~is_firebase_ready THEN {}
    ELSE IF ~ok THEN {}
    ELSE {r \in immune : r \in Roles}

\* variant: the command also seeds the members again
immune_role_seeding(author, role, ok) ==
    /\ Spend(1 + Cost(ok))
    /\ immune' = IF can_manage_immunity(author)
                 THEN add_immune_role(role, ok) ELSE immune
    /\ records' = [m \in Members |-> Doc(live[m], None, TRUE)]
    /\ UNCHANGED <<impl, bot_member, db, roles, live, audit, channel, handlers>>

immune_role(author, role, ok) ==
    /\ Spend(1 + Cost(ok))
    /\ immune' = IF can_manage_immunity(author)
                 THEN add_immune_role(role, ok) ELSE immune
    /\ UNCHANGED <<impl, bot_member, db, records, roles, live, audit, channel, handlers>>

unimmune_role(author, role, ok) ==
    /\ Spend(1 + Cost(ok))
    /\ immune' = IF can_manage_immunity(author)
                 THEN remove_immune_role(role, ok) ELSE immune
    /\ UNCHANGED <<impl, bot_member, db, records, roles, live, audit, channel, handlers>>

\* the listing command: get_immune_roles is read and the reply is sent
immune_roles(ok) ==
    /\ Spend(1 + Cost(ok))
    /\ UNCHANGED <<impl, bot_member, db, records, immune, roles, live, audit, channel,
                   handlers>>

\* the command reads can_manage_immunity, can_user_change_others_nicknames,
\* is_user_immune and get_bot_highest_role and sends the reply
check_permissions(author, member, ok) ==
    /\ Spend(1 + Cost(ok))
    /\ UNCHANGED <<impl, bot_member, db, records, immune, roles, live, audit, channel,
                   handlers>>

-----------------------------------------------------------------------------
(* Specification of bot.py *)

InitGuild ==
    /\ live = [m \in Members |-> IF m = "m1" THEN "Alice" ELSE "Bob"]
    /\ roles \in {[u \in Users |-> IF u = Me THEN {"r1"}
                                      ELSE IF u \in RoleHolders THEN rs ELSE {}] :
                     rs \in {{}, {"r2"}}}
    /\ bot_member = TRUE
    /\ audit = <<>>
    /\ handlers = <<>>

InitBot ==
    /\ impl = "bot"
    /\ db \in BOOLEAN
    /\ InitGuild
    /\ channel \in BOOLEAN
    /\ left = [ren |-> MaxRenames, dist |-> MaxDisturb]
    /\ records \in [Members -> {NoDoc} \cup {Doc(n, None, TRUE) : n \in Names}]
    /\ \A m \in Members :
          /\ records[m].exists => records[m].nickname = live[m]
          /\ m \notin Renamed => records[m].exists
    /\ immune \in {{}, {"r2"}}

Env ==
    \/ \E a \in Users \ {Me}, m \in Renamed, n \in Names, logged \in BOOLEAN :
          Rename(a, m, n, logged)
    \/ \E u \in RoleHolders, rs \in SUBSET Roles : SetRoles(u, rs)
    \/ \E a \in Users \ {Me}, r \in Roles, ok \in BOOLEAN : immune_role(a, r, ok)
    \/ \E a \in Users \ {Me}, r \in Roles, ok \in BOOLEAN : unimmune_role(a, r, ok)

NextBot ==
    \/ Env
    \/ \E i \in DOMAIN handlers, res \in AuditResults : handle_start(i, res)
    \/ \E i \in DOMAIN handlers, immOk, prevOk, wrOk \in BOOLEAN :
          handle_decide(i, immOk, prevOk, wrOk)
    \/ \E i \in DOMAIN handlers, res \in AuditResults, logged, sent \in BOOLEAN :
          handle_edit(i, res, logged, sent)

SpecBot == InitBot /\ [][NextBot]_vars

-----------------------------------------------------------------------------
(* bot.py with the events handled one after the other: a user renames a    *)
(* member only when every earlier event has been handled to its end        *)

Quiet == \A i \in DOMAIN handlers : handlers[i].pc = "done"

HandlerBot ==
    \/ \E i \in DOMAIN handlers, res \in AuditResults : handle_start(i, res)
    \/ \E i \in DOMAIN handlers, immOk, prevOk, wrOk \in BOOLEAN :
          handle_decide(i, immOk, prevOk, wrOk)
    \/ \E i \in DOMAIN handlers, res \in AuditResults, logged, sent \in BOOLEAN :
          handle_edit(i, res, logged, sent)

NextSeq ==
    \/ Quiet /\ Env
    \/ HandlerBot

SpecSeq == InitBot /\ [][NextSeq]_vars

-----------------------------------------------------------------------------
(* bot.py under concurrent renames of one member: the store is ready, the  *)
(* member is seeded, nobody holds an immune role and no call fails         *)

RaceRenames == 3

InitRace ==
    /\ impl = "bot"
    /\ db = TRUE
    /\ InitGuild
    /\ channel = TRUE
    /\ left = [ren |-> RaceRenames, dist |-> 0]
    /\ records = [m \in Members |-> Doc(live[m], None, TRUE)]
    /\ immune = {}
    /\ roles["m2"] = {}

NextRace ==
    \/ \E a \in Users \ {Me}, m \in Renamed, n \in Names : Rename(a, m, n, TRUE)
    \/ HandlerBot

\* the event loop resumes a task once the call it awaits has been answered:
\* a handler that can take a step is not left waiting for ever
SpecRace == InitRace /\ [][NextRace]_vars /\ WF_vars(HandlerBot)

-----------------------------------------------------------------------------
(* Specification of main.py *)

InitMain ==
    /\ impl = "main"
    /\ db = TRUE
    /\ InitGuild
    /\ channel = TRUE
    /\ left = [ren |-> MaxRenames, dist |-> MaxDisturb]
    /\ records \in [Members -> {NoDoc} \cup {Doc(n, None, TRUE) : n \in Names}]
    /\ \A m \in Members :
          /\ records[m].exists => records[m].nickname = live[m]
          /\ m \notin Renamed => records[m].exists
    /\ immune \in {{}, {"r2"}}

NextMain ==
    \/ Env
    \/ \E i \in DOMAIN handlers, ok \in BOOLEAN : main_start(i, ok)
    \/ \E i \in DOMAIN handlers, res \in AuditResults : main_query(i, res)
    \/ \E i \in DOMAIN handlers, ok \in BOOLEAN : main_update(i, ok)
    \/ \E i \in DOMAIN handlers, ok \in BOOLEAN : main_immune(i, ok)
    \/ \E i \in DOMAIN handlers, ok \in BOOLEAN : main_previous(i, ok)
    \/ \E i \in DOMAIN handlers, res \in AuditResults, logged, sent \in BOOLEAN :
          main_edit(i, res, logged, sent)

SpecMain == InitMain /\ [][NextMain]_vars

-----------------------------------------------------------------------------
(* Either program, two members renamed side by side: m1 once, by another   *)
(* user, while m2 renames itself as often as the audit window of the       *)
(* program has entries; no call fails                                      *)

AuditLimit == IF impl = "bot" THEN AuditLimitBot ELSE AuditLimitMain

\* the name m2 gives itself next
NextName(n) == IF n = "Bob" THEN "Carol" ELSE "Bob"

HandlerMain ==
    \/ \E i \in DOMAIN handlers, ok \in BOOLEAN : main_start(i, ok)
    \/ \E i \in DOMAIN handlers, res \in AuditResults : main_query(i, res)
    \/ \E i \in DOMAIN handlers, ok \in BOOLEAN : main_update(i, ok)
    \/ \E i \in DOMAIN handlers, ok \in BOOLEAN : main_immune(i, ok)
    \/ \E i \in DOMAIN handlers, ok \in BOOLEAN : main_previous(i, ok)

EventsOf(m) == {i \in DOMAIN handlers : handlers[i].m = m /\ handlers[i].by # Me}

InitPair ==
    /\ impl \in {"bot", "main"}
    /\ db = TRUE
    /\ InitGuild
    /\ channel = TRUE
    /\ left = [ren |-> 1 + AuditLimit, dist |-> 0]
    /\ records = [m \in Members |-> Doc(live[m], None, TRUE)]
    /\ immune = {}
    /\ roles["m2"] = {}

NextPair ==
    \/ \E a \in {"m2", Owner}, n \in Names :
          EventsOf("m1") = {} /\ Rename(a, "m1", n, TRUE)
    \/ /\ Cardinality(EventsOf("m2")) < AuditLimit
       /\ Rename("m2", "m2", NextName(live["m2"]), TRUE)
    \/ HandlerBot
    \/ HandlerMain

SpecPair == InitPair /\ [][NextPair]_vars

-----------------------------------------------------------------------------
(* Start-up: the sweep of on_ready over the members of the guild, run on   *)
(* every (re)connection, from any content of the store                     *)

SeedBudget == 3

\* the store after initialize_user has been called for every member; the
\* write succeeds for the members in served
seed_all(recs, served) ==
    [m \in Members |->
        IF impl = "bot"
        THEN initialize_user(recs, m, live[m], m \in served)[m]
        ELSE main_initialize_user(recs, m, live[m], m \in served)[m]]

\* on_ready: one run of the sweep; a run and each failing write are
\* disturbances
on_ready(served) ==
    /\ Spend(1 + Cardinality(Members \ served))
    /\ records' = seed_all(records, served)
    /\ UNCHANGED <<impl, bot_member, db, immune, roles, live, audit, channel, handlers>>

Docs ==
    {NoDoc} \cup {Doc(n, by, self) : n \in Names, by \in {None} \cup Members,
                                     self \in BOOLEAN}

InitSeed ==
    /\ impl \in {"bot", "main"}
    /\ db \in BOOLEAN
    /\ impl = "main" => db
    /\ live \in [Members -> Names]
    /\ records \in [Members -> Docs]
    /\ roles = [u \in Users |-> {}]
    /\ immune = {}
    /\ bot_member = TRUE
    /\ audit = <<>>
    /\ channel = TRUE
    /\ handlers = <<>>
    /\ left = [ren |-> 0, dist |-> SeedBudget]

NextSeed == \E served \in SUBSET Members : on_ready(served)

SpecSeed == InitSeed /\ [][NextSeed]_vars

-----------------------------------------------------------------------------
(* bot.py, the administration of the immune roles: any roles held by the   *)
(* members and by the bot, any stored immune set, the ids of roles the     *)
(* guild has deleted included                                              *)

AdminBudget == 3

GoneRoles == {"r0"}

InitAdmin ==
    /\ impl = "bot"
    /\ db \in BOOLEAN
    /\ bot_member \in BOOLEAN
    /\ roles \in [Users -> SUBSET Roles]
    /\ roles[Owner] = {}
    /\ immune \in SUBSET (Roles \cup GoneRoles)
    /\ live = [m \in Members |-> IF m = "m1" THEN "Alice" ELSE "Bob"]
    /\ records \in {[m \in Members |-> NoDoc],
                     [m \in Members |-> Doc(live[m], None, TRUE)],
                     [m \in Members |-> Doc("Carol", Owner, FALSE)]}
    /\ audit = <<>>
    /\ channel = TRUE
    /\ handlers = <<>>
    /\ left = [ren |-> 0, dist |-> AdminBudget]

NextAdmin ==
    \/ \E a \in Users \ {Me}, r \in Roles, ok \in BOOLEAN : immune_role(a, r, ok)
    \/ \E a \in Users \ {Me}, r \in Roles, ok \in BOOLEAN : unimmune_role(a, r, ok)
    \/ \E ok \in BOOLEAN : immune_roles(ok)
    \/ \E a \in Users \ {Me}, m \in Users, ok \in BOOLEAN : check_permissions(a, m, ok)
    \/ \E u \in RoleHolders, rs \in SUBSET Roles : SetRoles(u, rs)

SpecAdmin == InitAdmin /\ [][NextAdmin]_vars

-----------------------------------------------------------------------------
(* Either program *)

(* Either program, one rename of m1 delivered, over every audit log of up  *)
(* to MaxAudit entries about m1 and m2, newest first                       *)

MaxAudit == 6

AuditEntries ==
    {[user |-> "m1", target |-> "m1"], [user |-> "m2", target |-> "m1"],
     [user |-> Owner, target |-> "m1"], [user |-> Owner, target |-> "m2"]}

AuditLogs == UNION {[1..n -> AuditEntries] : n \in 0..MaxAudit}

InitAttr ==
    /\ impl \in {"bot", "main"}
    /\ db = TRUE
    /\ bot_member = TRUE
    /\ live = [m \in Members |-> "Bob"]
    /\ roles = [u \in Users |-> IF u = Me THEN {"r1"} ELSE {}]
    /\ immune = {}
    /\ channel = TRUE
    /\ records = [m \in Members |-> Doc(IF m = "m1" THEN "Alice" ELSE "Bob", None, TRUE)]
    /\ audit \in AuditLogs
    /\ handlers = on_member_update(<<>>, "m1", "Alice", "Bob", None)
    /\ left = [ren |-> 0, dist |-> 1]

NextAttr ==
    \/ HandlerBot
    \/ HandlerMain

SpecAttr == InitAttr /\ [][NextAttr]_vars

-----------------------------------------------------------------------------

(* Either program, handle_nickname_change called with any two names, the   *)
(* same name twice included, for a member with any record or none          *)

InitCall ==
    /\ impl \in {"bot", "main"}
    /\ db = TRUE
    /\ bot_member = TRUE
    /\ live \in [Members -> Names]
    /\ live["m2"] = "Bob"
    /\ roles = [u \in Users |-> IF u = Me THEN {"r1"} ELSE {}]
    /\ immune = {}
    /\ channel = TRUE
    /\ records \in [Members -> {NoDoc} \cup {Doc(n, None, TRUE) : n \in Names}]
    /\ records["m2"] = Doc("Bob", None, TRUE)
    /\ audit \in {<<>>, <<[user |-> "m2", target |-> "m1"]>>}
    /\ \E before \in Names :
          handlers = <<NewHandler("m1", before, live["m1"], None)>>
    /\ left = [ren |-> 0, dist |-> 1]

NextCall ==
    \/ HandlerBot
    \/ HandlerMain

SpecCall == InitCall /\ [][NextCall]_vars

-----------------------------------------------------------------------------

(* bot.py with reconnections: the member is seeded, the store is ready,     *)
(* nobody holds an immune role; renames of one member, their handlers, and  *)
(* the sweep of on_ready at any moment                                      *)

RestartRenames == 2

InitRestart ==
    /\ impl = "bot"
    /\ db = TRUE
    /\ InitGuild
    /\ channel = TRUE
    /\ left = [ren |-> RestartRenames, dist |-> 1]
    /\ records = [m \in Members |-> Doc(live[m], None, TRUE)]
    /\ immune = {}
    /\ roles["m2"] = {}

NextRestart ==
    \/ \E a \in Users \ {Me}, m \in Renamed, n \in Names : Rename(a, m, n, TRUE)
    \/ HandlerBot
    \/ \E served \in SUBSET Members : on_ready(served)

SpecRestart == InitRestart /\ [][NextRestart]_vars

-----------------------------------------------------------------------------

Init == InitBot \/ InitMain

Next == NextBot \/ NextMain

Spec == Init /\ [][Next]_vars

-----------------------------------------------------------------------------
(* Properties *)

\* handler i takes the step from the audit response to its decision
Decides(i) == handlers[i].pc = "audit" /\ handlers'[i].pc # "audit"

\* handler i takes the step in which its edit command is answered
Edits(i) == handlers[i].pc = "edit" /\ handlers'[i].pc = "done"

\* actor a neither owns the guild nor holds a role of the immune set
Unauthorized(a) == a \in Members /\ roles[a] \cap immune = {}

(* C1: bot.py. An event renaming M to N is attributed to an actor who is   *)
(* not M, not the bot, not the owner and holds no immune role; the store   *)
(* is ready, holds a record for M with a name P # N and serves the read.   *)
(* Then the handler issues the edit setting M's name to P, and neither its *)
(* decision step nor its edit step changes M's record: the stored name is  *)
(* P, never N, as far as this handler is concerned.                        *)
C1_RevertToStored ==
    [][\A i \in DOMAIN handlers :
         LET h == handlers[i] IN
         /\ ( /\ impl = "bot"
              /\ Decides(i)
              /\ h.actor # h.m
              /\ Unauthorized(h.actor)
              /\ is_firebase_ready
              /\ records[h.m].exists
              /\ records[h.m].nickname # h.after
              /\ "previous" \notin handlers'[i].log )
            => /\ handlers'[i].pc = "edit"
               /\ handlers'[i].edits = 1
               /\ handlers'[i].prev = records[h.m].nickname
               /\ records' = records
         /\ (impl = "bot" /\ Edits(i))
            => /\ records' = records
               /\ handlers'[i].outcome = "reverted" => live'[h.m] = h.prev
      ]_vars

\* a rename by an unauthorized member was reverted to the stored name
C1_Witness ==
    \E i \in DOMAIN handlers :
        LET h == handlers[i] IN
        /\ impl = "bot"
        /\ h.outcome = "reverted"
        /\ h.actor # h.m /\ Unauthorized(h.actor)
        /\ h.prev # h.after
        /\ h.prev = h.rec0
        /\ records[h.m].nickname = h.prev
        /\ live[h.m] = h.prev

(* C3: bot.py and main.py. A handler whose attribution resolved to the     *)
(* renamed member itself never issues an edit command, whatever the roles, *)
(* the owner and the immune set are.                                       *)
C3_SelfNeverReverted ==
    \A i \in DOMAIN handlers :
        handlers[i].actor = handlers[i].m => handlers[i].edits = 0

\* a self-rename to a name other than the stored one was handled to its
\* end without an edit
C3_Witness ==
    \E i \in DOMAIN handlers :
        LET h == handlers[i] IN
        /\ h.actor = h.m
        /\ h.via = "entry"
        /\ h.outcome = "self"
        /\ h.rec0 \notin {None, h.after}
        /\ h.edits = 0

(* C2: main.py. A rename of M to N attributed, by an audit entry, to a     *)
(* member other than M whom the handler did not find authorized, every     *)
(* call being served: the handler issues the edit setting M's name back to *)
(* the name P # N that was stored for M when the event arrived, and the    *)
(* record is not updated to N.                                             *)
C2_MainRevertToStored ==
    \A i \in DOMAIN handlers :
        LET h == handlers[i] IN
        ( /\ impl = "main"
          /\ h.pc = "done"
          /\ h.via = "entry"
          /\ h.actor \in Members \ {h.m}
          /\ h.outcome # "authorized"
          /\ h.log = {}
          /\ h.rec0 \notin {None, h.after} )
        => /\ h.edits = 1
           /\ h.prev = h.rec0
           /\ h.wrote = 0

(* C4: bot.py. A rename of M to N attributed to an actor other than M who  *)
(* is the owner or holds a role of the immune set, the store being ready   *)
(* and every call served: the change is accepted without an edit, and M's  *)
(* record becomes nickname = N, updated_by = the actor, is_self_change =   *)
(* false.                                                                  *)
C4_AuthorizedRecorded ==
    [][\A i \in DOMAIN handlers :
         LET h == handlers[i] IN
         ( /\ impl = "bot"
           /\ Decides(i)
           /\ h.actor \in Users \ {Me, h.m}
           /\ (h.actor = Owner \/ roles[h.actor] \cap immune # {})
           /\ is_firebase_ready
           /\ handlers'[i].log = {} )
         => /\ handlers'[i].outcome = "authorized"
            /\ handlers'[i].edits = 0
            /\ records'[h.m] = Doc(h.after, h.actor, FALSE)
      ]_vars

\* handler j accepted a rename of the member of handler i, and no handler
\* between the two accepted another one
LastAccepted(j, i) ==
    /\ j < i
    /\ handlers[j].m = handlers[i].m
    /\ handlers[j].outcome \in {"self", "authorized"}
    /\ \A k \in DOMAIN handlers :
          (j < k /\ k < i /\ handlers[k].m = handlers[i].m)
             => handlers[k].outcome \notin {"self", "authorized"}

(* C5: bot.py, events handled one after the other, the store ready and     *)
(* every call served. When a handler issues a revert of M after earlier    *)
(* accepted renames of M (self-renames, renames by the owner or by a       *)
(* holder of an immune role), the name it sets is the name of the most     *)
(* recent accepted rename.                                                 *)
C5_RevertToLastAccepted ==
    \A i, j \in DOMAIN handlers :
        ( /\ impl = "bot"
          /\ is_firebase_ready
          /\ LastAccepted(j, i)
          /\ handlers[j].log = {}
          /\ handlers[i].edits = 1
          /\ handlers[i].log \cap {"immune", "previous", "initialize"} = {} )
        => handlers[i].prev = handlers[j].after

(* C6: bot.py. Immunity is read live at every decision. An actor (not the  *)
(* owner) whose earlier rename of another member was accepted, and who     *)
(* holds no role of the immune set any more (the role was taken from the   *)
(* actor, or taken out of the immune set), is not accepted again: the      *)
(* handler of its next rename of another member is not authorized, and it  *)
(* issues the revert when the stored name differs and is read.             *)
C6_ImmunityLive ==
    [][\A i \in DOMAIN handlers :
         LET h == handlers[i] IN
         ( /\ impl = "bot"
           /\ Decides(i)
           /\ h.actor # h.m
           /\ Unauthorized(h.actor)
           /\ \E j \in DOMAIN handlers :
                 /\ j < i
                 /\ handlers[j].actor = h.actor
                 /\ handlers[j].outcome = "authorized" )
         => /\ handlers'[i].outcome # "authorized"
            /\ ( /\ records[h.m].exists
                 /\ records[h.m].nickname # h.after
                 /\ "previous" \notin handlers'[i].log )
               => /\ handlers'[i].pc = "edit"
                  /\ handlers'[i].prev = records[h.m].nickname
      ]_vars

\* the same member was accepted by one handler and reverted by a later one
C6_Witness ==
    \E i, j \in DOMAIN handlers :
        /\ impl = "bot"
        /\ j < i
        /\ handlers[j].actor = handlers[i].actor
        /\ handlers[i].actor \in Members \ {handlers[i].m}
        /\ handlers[j].outcome = "authorized"
        /\ handlers[i].outcome = "reverted"
        /\ handlers[i].prev # handlers[i].after

(* C7, as stated: the event produced by the bot's own revert never makes   *)
(* its handler issue an edit, under any attribution and any interleaving   *)
(* with renames of the same member.                                        *)
C7_NoRevertOfRevert ==
    \A i \in DOMAIN handlers : handlers[i].by = Me => handlers[i].edits = 0

\* what holds of the edits in every state of a run
RevertBound ==
    \A i \in DOMAIN handlers :
        LET h == handlers[i] IN
        /\ h.edits <= 1
        /\ h.actor = Me => h.edits = 0
        /\ (h.by = Me /\ h.edits = 1)
              => /\ h.actor \in Users \ {Me, h.m}
                 /\ \E k \in DOMAIN audit :
                       audit[k].user = h.actor /\ audit[k].target = h.m
                 /\ h.prev # h.after

(* C7, amended: bot.py, concurrent renames of one member. A handler that   *)
(* attributes its event to the bot issues no edit. The handler of an event *)
(* the bot's revert produced issues an edit only when the audit window     *)
(* attributes the event to another user's rename of that member and the    *)
(* stored name differs from the event's name. Every handler issues at most *)
(* one edit; and, handlers being resumed fairly, the guild is again and    *)
(* again without a pending event.                                          *)
C7_RevertBounded == []RevertBound /\ []<>Quiet

\* the handler of the bot's own revert ended without an edit, attributed to
\* the bot, while a later rename of the member by a user was pending
C7_Witness ==
    \E i, j \in DOMAIN handlers :
        /\ handlers[i].by = Me
        /\ handlers[i].actor = Me
        /\ handlers[i].outcome = "bot"
        /\ handlers[i].edits = 0
        /\ i < j
        /\ handlers[j].m = handlers[i].m
        /\ handlers[j].by # Me
        /\ handlers[j].pc # "done"

\* the attribution of handler i fell back to the member: the audit query was
\* forbidden, or its window held no entry about the member
FellBack(i) == handlers[i].via \in {"forbidden", "absent"}

(* C8, as stated: bot.py. When the audit query raises Forbidden or its     *)
(* window holds no entry about M, the change is attributed to M, accepted  *)
(* without an edit, and M's record becomes nickname = the new name,        *)
(* updated_by = M, is_self_change = true.                                  *)
C8_FailOpenRecorded ==
    [][\A i \in DOMAIN handlers :
         LET h == handlers[i] IN
         (impl = "bot" /\ Decides(i) /\ FellBack(i))
         => /\ h.actor = h.m
            /\ handlers'[i].outcome = "self"
            /\ handlers'[i].edits = 0
            /\ records'[h.m] = Doc(h.after, h.m, TRUE)
      ]_vars

(* C8, amended: as above, the record being written when the store handle   *)
(* is present and the write is served; with no store handle, or when the   *)
(* write fails, the change is still accepted without an edit and the       *)
(* records stay as they were.                                              *)
C8_FailOpenRecordedWhenReady ==
    [][\A i \in DOMAIN handlers :
         LET h == handlers[i] IN
         (impl = "bot" /\ Decides(i) /\ FellBack(i))
         => /\ h.actor = h.m
            /\ handlers'[i].outcome = "self"
            /\ handlers'[i].edits = 0
            /\ IF is_firebase_ready /\ "update" \notin handlers'[i].log
               THEN records'[h.m] = Doc(h.after, h.m, TRUE)
               ELSE records' = records
      ]_vars

\* a rename made by another user was accepted as a self-change after a
\* forbidden audit query, and recorded
C8_Witness ==
    \E i \in DOMAIN handlers :
        LET h == handlers[i] IN
        /\ impl = "bot"
        /\ h.via = "forbidden"
        /\ h.by \notin {h.m, Me}
        /\ h.outcome = "self"
        /\ h.edits = 0
        /\ h.rec0 # h.after
        /\ records[h.m] = Doc(h.after, h.m, TRUE)

(* C9: bot.py. When the edit command of a revert fails, with Forbidden or  *)
(* with any other error, the handler returns normally having issued that   *)
(* one edit and no more, sends no notification, and writes nothing: the    *)
(* records, the display names and the pending events are as before, and    *)
(* the handler has made no record write at all.                            *)
C9_RevertFailure ==
    [][\A i \in DOMAIN handlers :
         LET h == handlers[i] IN
         (impl = "bot" /\ Edits(i) /\ handlers'[i].outcome = "revert_failed")
         => /\ handlers'[i].pc = "done"
            /\ handlers'[i].edits = 1
            /\ handlers'[i].notes = 0
            /\ handlers'[i].wrote = 0
            /\ handlers'[i].log \cap {"forbidden", "error"} # {}
            /\ records' = records
            /\ live' = live
            /\ Len(handlers') = Len(handlers)
      ]_vars

\* a revert failed for lack of permission: the attempted name stays
\* displayed and the stored name is the earlier one
C9_Witness ==
    \E i \in DOMAIN handlers :
        LET h == handlers[i] IN
        /\ impl = "bot"
        /\ h.outcome = "revert_failed"
        /\ "forbidden" \in h.log
        /\ h.prev = h.rec0
        /\ records[h.m].nickname = h.prev
        /\ live[h.m] = h.after
        /\ h.after # h.prev

(* C10: bot.py and main.py. No failure of a collaborator call (audit-log   *)
(* query, store read or write, edit, notification send) leaves             *)
(* handle_nickname_change as an exception: every invocation returns        *)
(* normally.                                                               *)
C10_NothingPropagates ==
    \A i \in DOMAIN handlers : handlers[i].outcome # "raised"

(* C11: bot.py, the store ready and every call served. An invocation whose *)
(* names differ and that returns normally does exactly one of: one write   *)
(* of M's record and no edit, when the change is accepted (self, bot-own   *)
(* or authorized); one edit, followed by the notification where the log    *)
(* channel exists, and no write, when the change is rejected.              *)
C11_ExactlyOnce ==
    \A i \in DOMAIN handlers :
        LET h == handlers[i] IN
        ( /\ impl = "bot"
          /\ is_firebase_ready
          /\ h.pc = "done"
          /\ h.outcome \notin {"noop", "raised"}
          /\ h.log = {} )
        => IF h.outcome \in {"self", "bot", "authorized"}
           THEN h.wrote = 1 /\ h.edits = 0 /\ h.notes = 0
           ELSE /\ h.edits = 1 /\ h.wrote = 0
                /\ channel => h.notes = 1

(* C12: bot.py and main.py. The handling of a rename of m1 made by another *)
(* user comes out the same whether or not m2 is renamed at the same time:  *)
(* as without m2's events, the handler of m1's event attributes the change *)
(* to the user who made it and so never accepts it as a self-change.       *)
C12_Independent ==
    \A i \in DOMAIN handlers :
        LET h == handlers[i] IN
        (h.m = "m1" /\ h.by # Me /\ h.pc \in {"audit", "immune", "previous", "edit", "done"})
        => /\ h.actor = h.by
           /\ h.outcome # "self"

(* C13: bot.py and main.py. The start-up sweep is idempotent: after a run  *)
(* of the sweep, a second run over the same members with the same display *)
(* names would leave every member's record as the first run left it, and   *)
(* when the store served the writes every member has its one record,       *)
(* holding the display name.                                               *)
C13_SeedIdempotent ==
    [][\A served \in SUBSET Members :
         on_ready(served)
         => /\ seed_all(records', served) = records'
            /\ (served = Members /\ is_firebase_ready)
                  => /\ seed_all(records', Members) = records'
                     /\ \A m \in Members :
                           /\ records'[m].exists
                           /\ records'[m].nickname = live[m]
      ]_vars

\* the sweep has run (twice with every write served, or once with one
\* write failing) and every member's record holds the display name, with
\* an updated_by field of an earlier change left in place by main.py's merge
C13_Witness ==
    /\ left.dist = SeedBudget - 2
    /\ is_firebase_ready
    /\ \A m \in Members :
          records[m] \in {Doc(live[m], by, TRUE) : by \in {None} \cup Members}
    /\ impl = "main"
    /\ \E m \in Members : records[m].updated_by # None

\* author a may administer the immune roles: the owner, or a member one of
\* whose roles ranks above every role of the bot, the bot being a member
Eligible(a) ==
    \/ a = Owner
    \/ /\ bot_member
       /\ \E r \in roles[a] : \A q \in roles[Me] : Position(r) > Position(q)

(* C14: bot.py, the store ready and serving. After role R of the guild has *)
(* been added, get_immune_roles returns R; after R has been removed it     *)
(* does not; from every stored immune set, R already stored or not.        *)
C14_AddRemoveRoundTrip ==
    [][\A a \in Users \ {Me}, r \in Roles :
         (is_firebase_ready /\ can_manage_immunity(a))
         => /\ immune_role(a, r, TRUE)
                 => /\ r \in get_immune_roles(TRUE)'
                    /\ get_immune_roles(TRUE)' = get_immune_roles(TRUE) \cup {r}
            /\ unimmune_role(a, r, TRUE)
                 => /\ r \notin get_immune_roles(TRUE)'
                    /\ get_immune_roles(TRUE)' = get_immune_roles(TRUE) \ {r}
      ]_vars

\* commands have run; a role of the guild is stored and listed next to the
\* id of a deleted role, which is stored and not listed
C14_Witness ==
    /\ is_firebase_ready
    /\ left.dist < AdminBudget
    /\ "r1" \in get_immune_roles(TRUE)
    /\ "r2" \notin get_immune_roles(TRUE)
    /\ "r0" \in immune
    /\ "r0" \notin get_immune_roles(TRUE)

(* C16: bot.py. The immune set changes only in a step of immune_role or of *)
(* unimmune_role invoked by the owner or by a member whose top role is     *)
(* strictly above the bot's top role (by the owner alone when the bot is   *)
(* not found among the members); the command of any other author leaves    *)
(* the set as it is; an eligible author adds any role, whatever its rank.  *)
C16_ImmuneSetGuarded ==
    [][/\ immune' # immune
          => \E a \in Users \ {Me}, r \in Roles :
                /\ Eligible(a)
                /\ \/ immune_role(a, r, TRUE) /\ immune' = immune \cup {r}
                   \/ unimmune_role(a, r, TRUE) /\ immune' = immune \ {r}
       /\ \A a \in Users \ {Me}, r \in Roles, ok \in BOOLEAN :
             /\ (~Eligible(a) /\ (immune_role(a, r, ok) \/ unimmune_role(a, r, ok)))
                   => immune' = immune
             /\ (Eligible(a) /\ is_firebase_ready /\ immune_role(a, r, TRUE))
                   => r \in immune'
      ]_vars

\* commands have run, the bot holds the top-ranked role, and yet the
\* lowest-ranked role is in the immune set next to it
C16_Witness ==
    /\ is_firebase_ready
    /\ left.dist = 0
    /\ bot_member
    /\ roles[Me] = {"r2"}
    /\ immune = {"r1", "r2"}

(* C17: bot.py. The administrative commands (immune_role, unimmune_role,   *)
(* the listing, the permission check) and with them add_immune_role,       *)
(* remove_immune_role, get_immune_roles, can_manage_immunity,              *)
(* is_user_immune and can_user_change_others_nicknames leave every         *)
(* member's name record as it is.                                          *)
C17_AdminLeavesRecords ==
    [][( \/ \E a \in Users \ {Me}, r \in Roles, ok \in BOOLEAN :
                immune_role(a, r, ok) \/ unimmune_role(a, r, ok)
         \/ \E ok \in BOOLEAN : immune_roles(ok)
         \/ \E a \in Users \ {Me}, m \in Users, ok \in BOOLEAN :
                check_permissions(a, m, ok) )
       => records' = records
      ]_vars

\* commands have run, the immune set has been emptied of the guild's roles,
\* and the records written by an earlier rename are in place
C17_Witness ==
    /\ is_firebase_ready
    /\ left.dist = 0
    /\ immune \cap Roles = {}
    /\ \A m \in Members : records[m] = Doc("Carol", Owner, FALSE)

(* C15: bot.py, the store handle absent (db is None). is_user_immune is    *)
(* False for every user, whatever the stored immune set and the user's     *)
(* roles; can_user_change_others_nicknames is True for the owner and for   *)
(* nobody else; a rename attributed to the member is accepted: the handler *)
(* ends without an edit, without a notification and without raising.       *)
C15_NoStoreHandle ==
    (impl = "bot" /\ ~db)
    => /\ \A u \in Users, ok \in BOOLEAN :
             /\ ~is_user_immune(u, ok)
             /\ can_user_change_others_nicknames(u, ok) <=> (u = Owner)
       /\ \A i \in DOMAIN handlers :
             LET h == handlers[i] IN
             (h.pc = "done" /\ h.before # h.after /\ h.actor = h.m)
             => /\ h.outcome = "self"
                /\ h.edits = 0
                /\ h.notes = 0
                /\ h.wrote = 0

\* no store handle, an immune role stored and held by a member, and a
\* handler of a member's own rename has ended
C15_Witness ==
    /\ impl = "bot"
    /\ ~db
    /\ \E u \in Members : roles[u] \cap immune # {}
    /\ \E i \in DOMAIN handlers :
          /\ handlers[i].pc = "done"
          /\ handlers[i].before # handlers[i].after
          /\ handlers[i].actor = handlers[i].m
          /\ handlers[i].outcome = "self"

(* C18: within one invocation of handle_nickname_change the member's       *)
(* record is written only after the attribution has been resolved and, for *)
(* a change by another actor than the member and the bot, only once the    *)
(* authorization of that actor has been decided.                           *)
C18_WriteAfterDecision ==
    [][\A i \in DOMAIN handlers :
         LET h == handlers[i] IN
         handlers'[i].wrote > h.wrote
         => /\ h.actor # None
            /\ h.actor \notin {h.m, Me}
                 => \/ h.pc \in {"previous", "edit"}
                    \/ impl = "bot" /\ handlers'[i].outcome = "kept"
      ]_vars

\* the positions of the audit log, newest first, that the query of the
\* program returns and that are about member m
Hits(m) == {k \in 1..Len(audit) : k <= AuditLimit /\ audit[k].target = m}

\* handler i receives the answer of its audit-log query
Attributes(i) == handle_start(i, "ok") \/ main_query(i, "ok")

(* C19, as stated: the attributed actor is the user of the newest entry of *)
(* the window about M, and it is M itself if and only if no entry of the   *)
(* window is about M.                                                      *)
C19_NewestMatchIff ==
    [][\A i \in DOMAIN handlers :
         LET h == handlers[i] IN
         (Attributes(i) /\ h.before # h.after)
         => /\ Hits(h.m) # {}
                 => handlers'[i].actor =
                       audit[CHOOSE k \in Hits(h.m) : \A j \in Hits(h.m) : k <= j].user
            /\ handlers'[i].actor = h.m <=> Hits(h.m) = {}
      ]_vars

(* C19: for every audit log, newest first, of which the query returns the  *)
(* first 5 entries in bot.py and the first one in main.py: the attributed  *)
(* actor is the user of the first returned entry whose target is M, newer  *)
(* entries about other members and older entries about M being passed      *)
(* over; it is M itself when no returned entry is about M, and otherwise   *)
(* only when that first entry about M was made by M.                       *)
C19_NewestMatch ==
    [][\A i \in DOMAIN handlers :
         LET h == handlers[i]
             first == CHOOSE k \in Hits(h.m) : \A j \in Hits(h.m) : k <= j
         IN
         (Attributes(i) /\ h.before # h.after)
         => /\ Hits(h.m) # {} => handlers'[i].actor = audit[first].user
            /\ Hits(h.m) = {} => handlers'[i].actor = h.m
            /\ handlers'[i].actor = h.m
                 <=> (Hits(h.m) = {} \/ audit[first].user = h.m)
      ]_vars

\* bot.py has attributed a rename of m1 to the owner: the two newest entries
\* are about m2, the third is the owner's, an older one in the window is
\* m2's, and the sixth, outside the window, is m1's own
C19_Witness ==
    /\ impl = "bot"
    /\ Len(audit) = 6
    /\ audit[1].target = "m2"
    /\ audit[2].target = "m2"
    /\ audit[3] = [user |-> Owner, target |-> "m1"]
    /\ audit[5] = [user |-> "m2", target |-> "m1"]
    /\ audit[6] = [user |-> "m1", target |-> "m1"]
    /\ Len(handlers) = 1
    /\ handlers[1].pc = "audit"
    /\ handlers[1].actor = Owner

(* C20: bot.py, the store ready and every call served. When the rename of  *)
(* M to N by an actor who is not M, not the bot, not the owner and holds   *)
(* no immune role is handled while M has no record, the handler creates    *)
(* the record of M with the name N, issues no edit, sends no notification  *)
(* and returns: N is the stored name from then on.                         *)
C20_MissingRecordKept ==
    [][\A i \in DOMAIN handlers :
         LET h == handlers[i] IN
         ( /\ impl = "bot"
           /\ Decides(i)
           /\ h.actor # h.m
           /\ Unauthorized(h.actor)
           /\ is_firebase_ready
           /\ ~records[h.m].exists
           /\ handlers'[i].log = {} )
         => /\ handlers'[i].pc = "done"
            /\ handlers'[i].outcome = "kept"
            /\ handlers'[i].edits = 0
            /\ handlers'[i].notes = 0
            /\ handlers'[i].wrote = 1
            /\ records' = [records EXCEPT ![h.m] = Doc(h.after, None, TRUE)]
            /\ get_previous_nickname(h.m, h.after, TRUE)' = h.after
            /\ live' = live
            /\ Len(handlers') = Len(handlers)
      ]_vars

\* an unauthorized rename of a member without a record has been handled:
\* the attempted name is displayed and stored, and nothing was edited
C20_Witness ==
    \E i \in DOMAIN handlers :
        LET h == handlers[i] IN
        /\ impl = "bot"
        /\ h.pc = "done"
        /\ h.outcome = "kept"
        /\ h.actor = "m2"
        /\ h.via = "entry"
        /\ h.rec0 = None
        /\ h.wrote = 1
        /\ h.edits = 0
        /\ h.before # h.after
        /\ records[h.m] = Doc(h.after, None, TRUE)
        /\ live[h.m] = h.after

(* C21: bot.py and main.py. A run of the start-up sweep leaves the record  *)
(* of a member who already has one as it is in its stored name and in its  *)
(* updated_by field, also when the member's display name is another name   *)
(* than the stored one.                                                    *)
C21_SeedKeepsSeeded ==
    [][\A served \in SUBSET Members :
         on_ready(served)
         => \A m \in Members :
               records[m].exists
               => /\ records'[m].nickname = records[m].nickname
                  /\ records'[m].updated_by = records[m].updated_by
      ]_vars

(* C22: bot.py. A handler has sent at most one notification; it has sent   *)
(* one only once its own edit command has succeeded, and never when it     *)
(* accepted the change. When the edit succeeds and the send fails, or the  *)
(* guild has no audit channel, the handler returns normally with the       *)
(* revert applied and the records as they were.                            *)
C22_NotifyAfterRevert ==
    [][/\ \A i \in DOMAIN handlers' :
             LET g == handlers'[i] IN
             impl = "bot"
             => /\ g.notes <= 1
                /\ g.notes = 1 => g.pc = "done" /\ g.outcome = "reverted" /\ g.edits = 1
                /\ g.outcome \in {"self", "bot", "authorized", "kept", "noop"}
                      => g.notes = 0
       /\ \A i \in DOMAIN handlers :
             LET h == handlers[i] IN
             ( /\ impl = "bot"
               /\ Edits(i)
               /\ handlers'[i].outcome = "reverted" )
             => /\ handlers'[i].notes = (IF channel /\ "error" \notin handlers'[i].log
                                          THEN 1 ELSE 0)
                /\ live'[h.m] = h.prev
                /\ records' = records
      ]_vars

\* the edit of a revert succeeded and the send of the notification failed:
\* the handler has ended, the member shows the stored name again
C22_Witness ==
    \E i \in DOMAIN handlers :
        LET h == handlers[i] IN
        /\ impl = "bot"
        /\ channel
        /\ h.pc = "done"
        /\ h.outcome = "reverted"
        /\ h.edits = 1
        /\ h.notes = 0
        /\ h.log = {"error"}
        /\ live[h.m] = h.prev
        /\ records[h.m].nickname = h.prev
        /\ h.prev # h.after

(* C23: bot.py and main.py. handle_nickname_change called with the same    *)
(* display name before and after returns at once: the audit log is not     *)
(* queried, the store is neither read nor written, no edit command and no  *)
(* notification are issued, and the records, the display names and the     *)
(* audit log are as before.                                                *)
C23_SameNameNoop ==
    [][\A i \in DOMAIN handlers :
         LET h == handlers[i] IN
         (h.pc = "start" /\ h.before = h.after /\ handlers'[i] # h)
         => /\ handlers' = [handlers EXCEPT ![i] = Finish(h, "noop")]
            /\ handlers'[i].actor = None
            /\ handlers'[i].via = None
            /\ handlers'[i].prev = None
            /\ handlers'[i].log = {}
            /\ handlers'[i].wrote = 0
            /\ handlers'[i].edits = 0
            /\ handlers'[i].notes = 0
            /\ records' = records
            /\ live' = live
            /\ audit' = audit
            /\ left' = left
      ]_vars

\* a call with the same name twice has returned while the stored name of
\* the member is another one and the newest audit entry is about the member
C23_Witness ==
    \E i \in DOMAIN handlers :
        LET h == handlers[i] IN
        /\ h.pc = "done"
        /\ h.outcome = "noop"
        /\ h.before = h.after
        /\ records[h.m].exists
        /\ records[h.m].nickname # h.after
        /\ audit # <<>>
        /\ audit[1].target = h.m

\* the immune-role ids the program obtains from the store: the stored set
\* when the read is served, none when the store cannot be read (the read
\* raises, or there is no store handle to read with)
ReadableImmune(ok) == IF db /\ ok THEN immune ELSE {}

(* C24: bot.py. can_user_change_others_nicknames is true exactly when the  *)
(* user is the owner of the guild or one of the roles the user holds now   *)
(* is in the stored immune set; with an empty immune set it is true for    *)
(* the owner alone, and a store that cannot be read counts as an empty     *)
(* set.                                                                    *)
C24_AuthorizedIffOwnerOrImmune ==
    impl = "bot"
    => \A u \in Users, ok \in BOOLEAN :
          /\ can_user_change_others_nicknames(u, ok)
                <=> (u = Owner \/ roles[u] \cap ReadableImmune(ok) # {})
          /\ ReadableImmune(ok) = {}
                => (can_user_change_others_nicknames(u, ok) <=> u = Owner)

\* commands have run; of two stored immune roles m1 holds one and m2 none:
\* m1 is authorized while the store is read, m2 is not
C24_Witness ==
    /\ impl = "bot"
    /\ db
    /\ left.dist < AdminBudget
    /\ {"r1", "r2"} \subseteq immune
    /\ roles["m1"] = {"r1"}
    /\ roles["m2"] = {}
    /\ can_user_change_others_nicknames("m1", TRUE)
    /\ ~can_user_change_others_nicknames("m1", FALSE)
    /\ ~can_user_change_others_nicknames("m2", TRUE)

\* the display name member m has when the bot first sees the guild
FirstName(m) == IF m = "m1" THEN "Alice" ELSE "Bob"

\* the names given to member m by the first seeding, by m itself or by the
\* owner (nobody holds an immune role in these runs)
Legitimate(m) ==
    {FirstName(m)} \cup
    {handlers[i].after : i \in {j \in DOMAIN handlers :
                                  handlers[j].m = m /\ handlers[j].by \in {m, Owner}}}

(* C25: bot.py. In every reachable state, whatever the interleaving of the *)
(* handlers of one member and of the start-up sweep, the stored name of a  *)
(* member is a name the member got from the first seeding, from a rename   *)
(* of its own or from an authorized rename, never a name that only an      *)
(* unauthorized rename gave it.                                            *)
C25_StoredNameLegitimate ==
    impl = "bot"
    => \A m \in Members :
          records[m].exists => records[m].nickname \in Legitimate(m)

\* every event so far is a rename of the member by itself, a rename by
\* member m2, who is not authorized, or the bot's own edit
OnlySelfAndUnauthorized ==
    \A i \in DOMAIN handlers : handlers[i].by \in {handlers[i].m, "m2", Me}

(* C26: bot.py, the store ready, every audit entry visible and every edit  *)
(* succeeding; self-renames of M and renames of M by an unauthorized       *)
(* member handled concurrently. Once every handler has finished, those of  *)
(* the bot's own edits included, the display name of M is its stored name; *)
(* and no revert replaces a display name that a later self-rename of M     *)
(* has set.                                                                *)
C26_QuiescentConsistency ==
    [][(impl = "bot" /\ OnlySelfAndUnauthorized')
       => /\ Quiet'
               => \A m \in Renamed : live'[m] = records'[m].nickname
          /\ \A i \in DOMAIN handlers :
                (Edits(i) /\ handlers'[i].outcome = "reverted" /\ live' # live)
                => ~ \E j \in DOMAIN handlers :
                        /\ j > i
                        /\ handlers[j].m = handlers[i].m
                        /\ handlers[j].by = handlers[j].m
                        /\ handlers[j].after = live[handlers[i].m]
      ]_vars

(* C27: bot.py, the store handle absent. No handler issues an edit, for    *)
(* any event and any attributed actor: a rename of a member by another,    *)
(* unauthorized member is kept, no notification is sent and no record is   *)
(* written, whatever the store holds.                                      *)
C27_NoRevertWithoutStore ==
    [][(impl = "bot" /\ ~db)
       => /\ records' = records
          /\ \A i \in DOMAIN handlers' :
                LET g == handlers'[i] IN
                /\ g.pc # "edit"
                /\ g.edits = 0
                /\ g.notes = 0
                /\ g.wrote = 0
                /\ g.by # Me
          /\ \A i \in DOMAIN handlers :
                LET h == handlers[i] IN
                (Decides(i) /\ h.actor \in Members \ {h.m})
                => /\ handlers'[i].pc = "done"
                   /\ handlers'[i].outcome = "kept"
                   /\ live' = live
      ]_vars

\* no store handle; the rename of m1 by m2, who is not authorized, has been
\* handled: the attempted name is displayed, the store holds the earlier one
C27_Witness ==
    \E i \in DOMAIN handlers :
        LET h == handlers[i] IN
        /\ impl = "bot"
        /\ ~db
        /\ h.pc = "done"
        /\ h.outcome = "kept"
        /\ h.actor = "m2"
        /\ h.via = "entry"
        /\ roles["m2"] \cap immune = {}
        /\ records[h.m].exists
        /\ records[h.m].nickname = h.before
        /\ h.before # h.after
        /\ live[h.m] = h.after

====
